---- MODULE Spec2Model ----
(***************************************************************************)
(* Model of terraform-provider-gitlab-repository-files: the repository-file*)
(* resource (Create / Read / Update / Delete / Import), its content        *)
(* validator, and the project-access-token resource's Read.                *)
(*                                                                         *)
(* Strings that the code splits or joins are sequences of atoms: an atom   *)
(* is either the separator ":" or a colon-free chunk of characters.  The   *)
(* empty Go string is the empty sequence.                                  *)
(***************************************************************************)
EXTENDS Integers, Sequences, FiniteSets, TLC

VARIABLES
    files,      \* remote: the files of the repository, by project/branch/path
    commits,    \* remote: number of commits made so far
    d,          \* ResourceData of the repository-file resource
    last,       \* the last repository-file operation and how it went
    vc,         \* a content string and what validation said about it
    tokens,     \* remote: the project's access tokens
    td,         \* ResourceData of the project-access-token resource
    tlast       \* the last token operation and how it went

fileVars == <<files, commits, d, last>>
tokenVars == <<tokens, td, tlast>>
vars == <<files, commits, d, last, vc, tokens, td, tlast>>

----------------------------------------------------------------------------
(* Bounds *)

MaxCommits == 5
MaxExtPerOp == 1
MaxFaultsPerOp == 1
MaxContentLen == 5
MaxPages == 2
MaxTokenExt == 1
MaxOwn == 1

----------------------------------------------------------------------------
(* Generic helpers *)

Nil == [nil |-> TRUE]

EmptyStr == <<>>

RECURSIVE Split(_, _)
\* strings.Split(s, sep) for a one-atom separator: always at least one part
Split(s, sep) ==
    IF \A i \in 1..Len(s) : s[i] # sep
    THEN <<s>>
    ELSE LET i == CHOOSE k \in 1..Len(s) :
                     s[k] = sep /\ \A j \in 1..(k-1) : s[j] # sep
         IN  <<SubSeq(s, 1, i-1)>> \o Split(SubSeq(s, i+1, Len(s)), sep)

\* strings.Contains(s, substr) over atom sequences
Contains(s, substr) ==
    \E i \in 0..(Len(s) - Len(substr)) :
        \A j \in 1..Len(substr) : s[i + j] = substr[j]

----------------------------------------------------------------------------
(* The remote service as seen through the client                           *)

encoding == <<"base64">>

KnownProject == <<"42">>
MainBranch == <<"main">>
PlainPath == <<"meow">>
ColonPath == <<"meow", ":", "txt">>
Paths == {PlainPath, ColonPath}

Content1 == <<"bWVvdyBtZW93IG1lb3c=">>
Content2 == <<"bWVvdyBtZW93IG1lb3cgbWVvdyBtZW93Cg==">>
ExtContent == <<"dGVzdA==">>
Contents == {Content1, Content2}

NoFile == [exists |-> FALSE]

Faults == {"none", "transport", "http"}

FileNotFoundText == <<"404", "File", "Not", "Found">>
ProjectNotFoundText == <<"404", "Project", "Not", "Found">>
AlreadyExistsText == <<"A", "file", "with", "this", "name", "already", "exists">>
ChangedText == <<"You", "are", "attempting", "to", "update", "a", "file", "that", "has", "changed">>
BadEncodingText == <<"encoding", "does", "not", "have", "a", "valid", "value">>
ServerErrorText == <<"500", "Internal", "Server", "Error">>
TransportText == <<"dial", "tcp:", "connection", "refused">>

\* An error built by the client from a non-2xx response
ErrorResponse(method, code, message) ==
    [text |-> <<method, "url:", code, "{message:">> \o message \o <<"}">>]

Response(status) == [Status |-> status]

\* Outcome of a call that did not reach the remote's own logic
Faulted(R, fault, method) ==
    IF fault = "transport"
    THEN [R |-> R, val |-> Nil, resp |-> Nil,
          err |-> [text |-> <<method, "url:">> \o TransportText]]
    ELSE [R |-> R, val |-> Nil, resp |-> Response("500 Internal Server Error"),
          err |-> ErrorResponse(method, "500", ServerErrorText)]

Failed(R, method, status, code, message) ==
    [R |-> R, val |-> Nil, resp |-> Response(status),
     err |-> ErrorResponse(method, code, message)]

Key(project, branch, path) == <<project, branch, path>>

Lookup(R, project, branch, path) ==
    IF Key(project, branch, path) \in DOMAIN R.files
    THEN R.files[Key(project, branch, path)]
    ELSE NoFile

\* client.RepositoryFiles.GetFile(project, filePath, {Ref})
GetFile(R, fault, project, filePath, opts) ==
    IF fault # "none" THEN Faulted(R, fault, "GET")
    ELSE IF project # KnownProject
    THEN Failed(R, "GET", "404 Not Found", "404", ProjectNotFoundText)
    ELSE LET f == Lookup(R, project, opts.Ref, filePath) IN
         IF ~f.exists
         THEN Failed(R, "GET", "404 Not Found", "404", FileNotFoundText)
         ELSE [R |-> R,
               val |-> [FilePath |-> filePath, Ref |-> opts.Ref,
                        Encoding |-> encoding, Content |-> f.content,
                        LastCommitID |-> f.last_commit_id],
               resp |-> Response("200 OK"), err |-> Nil]

Commit(R, project, branch, path, file) ==
    [files |-> [R.files EXCEPT ![Key(project, branch, path)] = file],
     commits |-> R.commits + 1]

\* client.RepositoryFiles.CreateFile(project, filePath, options)
CreateFile(R, fault, project, filePath, opts) ==
    IF fault # "none" THEN Faulted(R, fault, "POST")
    ELSE IF project # KnownProject
    THEN Failed(R, "POST", "404 Not Found", "404", ProjectNotFoundText)
    ELSE IF opts.Encoding # encoding
    THEN Failed(R, "POST", "400 Bad Request", "400", BadEncodingText)
    ELSE IF Key(project, opts.Branch, filePath) \notin DOMAIN R.files
            \/ Lookup(R, project, opts.Branch, filePath).exists
    THEN Failed(R, "POST", "400 Bad Request", "400", AlreadyExistsText)
    ELSE [R |-> Commit(R, project, opts.Branch, filePath,
                       [exists |-> TRUE, content |-> opts.Content,
                        last_commit_id |-> R.commits + 1]),
          val |-> [FilePath |-> filePath, Branch |-> opts.Branch],
          resp |-> Response("201 Created"), err |-> Nil]

\* client.RepositoryFiles.UpdateFile(project, filePath, options)
UpdateFile(R, fault, project, filePath, opts) ==
    IF fault # "none" THEN Faulted(R, fault, "PUT")
    ELSE IF project # KnownProject
    THEN Failed(R, "PUT", "404 Not Found", "404", ProjectNotFoundText)
    ELSE IF opts.Encoding # encoding
    THEN Failed(R, "PUT", "400 Bad Request", "400", BadEncodingText)
    ELSE LET f == Lookup(R, project, opts.Branch, filePath) IN
         IF ~f.exists \/ f.last_commit_id # opts.LastCommitID
         THEN Failed(R, "PUT", "400 Bad Request", "400", ChangedText)
         ELSE [R |-> Commit(R, project, opts.Branch, filePath,
                            [exists |-> TRUE, content |-> opts.Content,
                             last_commit_id |-> R.commits + 1]),
               val |-> [FilePath |-> filePath, Branch |-> opts.Branch],
               resp |-> Response("200 OK"), err |-> Nil]

\* client.RepositoryFiles.DeleteFile(project, filePath, options)
DeleteFile(R, fault, project, filePath, opts) ==
    IF fault # "none" THEN Faulted(R, fault, "DELETE")
    ELSE IF project # KnownProject
    THEN Failed(R, "DELETE", "404 Not Found", "404", ProjectNotFoundText)
    ELSE LET f == Lookup(R, project, opts.Branch, filePath) IN
         IF ~f.exists \/ f.last_commit_id # opts.LastCommitID
         THEN Failed(R, "DELETE", "400 Bad Request", "400", ChangedText)
         ELSE [R |-> Commit(R, project, opts.Branch, filePath, NoFile),
               val |-> Nil,
               resp |-> Response("204 No Content"), err |-> Nil]

\* Another writer of the repository (the Description's "other entity")
ExtChoices ==
    {[kind |-> "none"]}
      \cup {[kind |-> "write", path |-> p] : p \in {PlainPath}}
      \cup {[kind |-> "delete", path |-> p] : p \in {PlainPath}}

ExtEnabled(R, x) ==
    \/ x.kind = "none"
    \/ x.kind = "write"
    \/ x.kind = "delete" /\ Lookup(R, KnownProject, MainBranch, x.path).exists

ExtApply(R, x) ==
    IF x.kind = "write"
    THEN Commit(R, KnownProject, MainBranch, x.path,
                [exists |-> TRUE, content |-> ExtContent,
                 last_commit_id |-> R.commits + 1])
    ELSE IF x.kind = "delete"
    THEN Commit(R, KnownProject, MainBranch, x.path, NoFile)
    ELSE R

----------------------------------------------------------------------------
(* schema.ResourceData of the repository-file resource                     *)

SchemaKeys ==
    {"project", "file_path", "branch", "start_branch", "author_email",
     "author_name", "content", "commit_message", "overwrite_on_create"}

EmptyData ==
    [id |-> EmptyStr, project |-> EmptyStr, file_path |-> EmptyStr,
     branch |-> EmptyStr, start_branch |-> EmptyStr,
     author_email |-> EmptyStr, author_name |-> EmptyStr,
     content |-> EmptyStr, commit_message |-> EmptyStr,
     overwrite_on_create |-> FALSE]

\* d.Set(key, value): a key the schema does not declare is not written
Set(data, key, value) ==
    IF key \in SchemaKeys THEN [data EXCEPT ![key] = value] ELSE data

SetId(data, v) == [data EXCEPT !.id = v]

\* the attribute as the state file would show it ("" when absent)
Tracked(data, key) ==
    IF key \in DOMAIN data THEN data[key] ELSE EmptyStr

\* optional option: set only when d.GetOk reports a non-zero value
GetOk(data, key) == IF data[key] # EmptyStr THEN <<data[key]>> ELSE <<>>

----------------------------------------------------------------------------
(* Handlers.  Each returns the ResourceData, the remote, the log of remote *)
(* calls (and of other writers' commits between them), and the outcome.    *)

Ret(data, R, calls, outcome, err) ==
    [d |-> data, R |-> R, calls |-> calls, outcome |-> outcome, err |-> err]

CallRec(api, project, filePath, opts, r) ==
    [api |-> api, project |-> project, path |-> filePath, opts |-> opts,
     val |-> r.val, resp |-> r.resp, err |-> r.err]

ExtStep(R, x) == IF x.kind # "none" /\ ExtEnabled(R, x) THEN ExtApply(R, x) ELSE R

ExtLog(R, x) ==
    IF x.kind # "none" /\ ExtEnabled(R, x)
    THEN <<[api |-> "ext", project |-> KnownProject, path |-> x.path,
            opts |-> x, val |-> Nil, resp |-> Nil, err |-> Nil]>>
    ELSE <<>>

\* diag.FromErr(err)
FromErr(err) == [text |-> err.text]

\* strings.Contains(err.Error(), "404 File Not Found")
IsFileNotFound(err) == Contains(err.text, FileNotFoundText)

\* the d.Set calls of Read
ReadSetAttributes(data, project, repositoryFile) ==
    LET d1 == Set(data, "project", project)
        d2 == Set(d1, "file_path", repositoryFile.FilePath)
        d3 == Set(d2, "branch", repositoryFile.Ref)
        d4 == Set(d3, "encoding", repositoryFile.Encoding)
        d5 == Set(d4, "content", repositoryFile.Content)
    IN  d5

resourceGitlabRepositoryFileRead(R, data, fault) ==
    LET project == data.project
        filePath == data.id
        options == [Ref |-> data.branch]
        r == GetFile(R, fault, project, filePath, options)
        log == <<CallRec("GetFile", project, filePath, options, r)>>
    IN  IF r.err # Nil
        THEN IF IsFileNotFound(r.err)
             THEN Ret(SetId(data, EmptyStr), r.R, log, "ok", Nil)
             ELSE Ret(data, r.R, log, "error", FromErr(r.err))
        ELSE Ret(ReadSetAttributes(data, project, r.val), r.R, log, "ok", Nil)

\* the part of Create after the create or update call succeeded
CreateTail(R, data, filePathForId, env, log) ==
    LET d1 == SetId(data, filePathForId)
        R1 == ExtStep(R, env.x[2])
        rd == resourceGitlabRepositoryFileRead(R1, d1, env.f[3])
    IN  Ret(rd.d, rd.R, log \o ExtLog(R, env.x[2]) \o rd.calls,
            rd.outcome, rd.err)

\* (variant: the existing file is looked for whatever the configuration says)
OverwriteOnCreate_always(data) == TRUE

\* d.Get("overwrite_on_create").(bool)
OverwriteOnCreate(data) == data.overwrite_on_create

\* (variant: the probe's answer is not used)
ExistingRepositoryFile_ignored(data, probe) == Nil

\* (variant: a probe that failed counts as a file that exists)
ExistingRepositoryFile_failedCounts(data, probe) ==
    IF OverwriteOnCreate(data)
    THEN IF probe.err # Nil THEN [LastCommitID |-> 0] ELSE probe.val
    ELSE Nil

\* the existence probe of Create: its error is discarded
ExistingRepositoryFile(data, probe) ==
    IF OverwriteOnCreate(data) THEN probe.val ELSE Nil

CreateOptions(data) ==
    [Branch |-> data.branch, Encoding |-> encoding,
     AuthorEmail |-> data.author_email, AuthorName |-> data.author_name,
     Content |-> data.content, CommitMessage |-> data.commit_message,
     StartBranch |-> GetOk(data, "start_branch")]

\* (variant: the commit id of the repository's first commit is passed on)
OverwriteOptions_staleCommitID(data, existingRepositoryFile) ==
    [Branch |-> data.branch, Encoding |-> encoding,
     AuthorEmail |-> data.author_email, AuthorName |-> data.author_name,
     Content |-> data.content, CommitMessage |-> data.commit_message,
     LastCommitID |-> 1,
     StartBranch |-> GetOk(data, "start_branch")]

\* the options of the update call that Create issues for an existing file
OverwriteOptions(data, existingRepositoryFile) ==
    [Branch |-> data.branch, Encoding |-> encoding,
     AuthorEmail |-> data.author_email, AuthorName |-> data.author_name,
     Content |-> data.content, CommitMessage |-> data.commit_message,
     LastCommitID |-> existingRepositoryFile.LastCommitID,
     StartBranch |-> GetOk(data, "start_branch")]

\* (variant: the commit id of the re-read is not passed on)
UpdateOptions_noCommitID(data, existingRepositoryFile) ==
    [Branch |-> data.branch, Encoding |-> encoding,
     AuthorEmail |-> data.author_email, AuthorName |-> data.author_name,
     Content |-> data.content, CommitMessage |-> data.commit_message,
     LastCommitID |-> 0,
     StartBranch |-> GetOk(data, "start_branch")]

\* the options of the update call of Update
UpdateOptions(data, existingRepositoryFile) ==
    [Branch |-> data.branch, Encoding |-> encoding,
     AuthorEmail |-> data.author_email, AuthorName |-> data.author_name,
     Content |-> data.content, CommitMessage |-> data.commit_message,
     LastCommitID |-> existingRepositoryFile.LastCommitID,
     StartBranch |-> GetOk(data, "start_branch")]

DeletePrefix == <<"[DELETE]: ">>

\* (variant: the commit message is passed on as declared)
DeleteOptions_noPrefix(data, existingRepositoryFile) ==
    [Branch |-> data.branch,
     AuthorEmail |-> data.author_email, AuthorName |-> data.author_name,
     CommitMessage |-> data.commit_message,
     LastCommitID |-> existingRepositoryFile.LastCommitID]

DeleteOptions(data, existingRepositoryFile) ==
    [Branch |-> data.branch,
     AuthorEmail |-> data.author_email, AuthorName |-> data.author_name,
     CommitMessage |-> DeletePrefix \o data.commit_message,
     LastCommitID |-> existingRepositoryFile.LastCommitID]

resourceGitlabRepositoryFileCreate(R, data, env) ==
    LET project == data.project
        filePath == data.file_path
        readOptions == [Ref |-> data.branch]
        probe == GetFile(R, env.f[1], project, filePath, readOptions)
        existingRepositoryFile == ExistingRepositoryFile(data, probe)
        log1 == IF OverwriteOnCreate(data)
                THEN <<CallRec("GetFile", project, filePath, readOptions, probe)>>
                ELSE <<>>
        R1 == ExtStep(R, env.x[1])
        log2 == log1 \o ExtLog(R, env.x[1])
    IN  IF existingRepositoryFile = Nil
        THEN LET options == CreateOptions(data)
                 c == CreateFile(R1, env.f[2], project, filePath, options)
                 log3 == log2 \o <<CallRec("CreateFile", project, filePath, options, c)>>
             IN  IF c.err # Nil
                 THEN Ret(data, c.R, log3, "error", FromErr(c.err))
                 ELSE CreateTail(c.R, data, c.val.FilePath, env, log3)
        ELSE LET options == OverwriteOptions(data, existingRepositoryFile)
                 u == UpdateFile(R1, env.f[2], project, filePath, options)
                 log3 == log2 \o <<CallRec("UpdateFile", project, filePath, options, u)>>
             IN  IF u.err # Nil
                 THEN Ret(data, u.R, log3, "error", FromErr(u.err))
                 ELSE CreateTail(u.R, data, u.val.FilePath, env, log3)


\* (variant: a rejected update call is repeated once after a fresh re-read)
resourceGitlabRepositoryFileUpdate_retry(R, data, env) ==
    LET project == data.project
        filePath == data.file_path
        readOptions == [Ref |-> data.branch]
        g == GetFile(R, env.f[1], project, filePath, readOptions)
        log1 == <<CallRec("GetFile", project, filePath, readOptions, g)>>
    IN  IF g.err # Nil
        THEN Ret(data, g.R, log1, "error", FromErr(g.err))
        ELSE LET R1 == ExtStep(g.R, env.x[1])
                 log2 == log1 \o ExtLog(g.R, env.x[1])
                 options == UpdateOptions(data, g.val)
                 u == UpdateFile(R1, env.f[2], project, filePath, options)
                 log3 == log2 \o <<CallRec("UpdateFile", project, filePath, options, u)>>
                 g2 == GetFile(u.R, "none", project, filePath, readOptions)
                 log4 == log3 \o <<CallRec("GetFile", project, filePath, readOptions, g2)>>
             IN  IF u.err # Nil /\ g2.err # Nil
                 THEN Ret(data, g2.R, log4, "error", FromErr(u.err))
                 ELSE IF u.err # Nil
                 THEN LET options2 == UpdateOptions(data, g2.val)
                          u2 == UpdateFile(g2.R, "none", project, filePath, options2)
                      IN  Ret(data, u2.R,
                              log4 \o <<CallRec("UpdateFile", project, filePath, options2, u2)>>,
                              IF u2.err # Nil THEN "error" ELSE "ok",
                              IF u2.err # Nil THEN FromErr(u2.err) ELSE Nil)
                 ELSE LET R2 == ExtStep(u.R, env.x[2])
                          rd == resourceGitlabRepositoryFileRead(R2, data, env.f[3])
                      IN  Ret(rd.d, rd.R,
                              log3 \o ExtLog(u.R, env.x[2]) \o rd.calls,
                              rd.outcome, rd.err)

resourceGitlabRepositoryFileUpdate(R, data, env) ==
    LET project == data.project
        filePath == data.file_path
        readOptions == [Ref |-> data.branch]
        g == GetFile(R, env.f[1], project, filePath, readOptions)
        log1 == <<CallRec("GetFile", project, filePath, readOptions, g)>>
    IN  IF g.err # Nil
        THEN Ret(data, g.R, log1, "error", FromErr(g.err))
        ELSE LET existingRepositoryFile == g.val
                 R1 == ExtStep(g.R, env.x[1])
                 log2 == log1 \o ExtLog(g.R, env.x[1])
                 options == UpdateOptions(data, existingRepositoryFile)
                 u == UpdateFile(R1, env.f[2], project, filePath, options)
                 log3 == log2 \o <<CallRec("UpdateFile", project, filePath, options, u)>>
             IN  IF u.err # Nil
                 THEN Ret(data, u.R, log3, "error", FromErr(u.err))
                 ELSE LET R2 == ExtStep(u.R, env.x[2])
                          rd == resourceGitlabRepositoryFileRead(R2, data, env.f[3])
                      IN  Ret(rd.d, rd.R,
                              log3 \o ExtLog(u.R, env.x[2]) \o rd.calls,
                              rd.outcome, rd.err)

\* diag.Errorf("%s failed to delete repository file: (%s) %v", d.Id(), resp.Status, err)
DeleteError(id, resp, err) ==
    [text |-> id \o <<"failed", "to", "delete", "repository", "file:", "(">>
                 \o <<resp.Status>> \o <<")">> \o err.text]

resourceGitlabRepositoryFileDelete(R, data, env) ==
    LET project == data.project
        filePath == data.file_path
        readOptions == [Ref |-> data.branch]
        g == GetFile(R, env.f[1], project, filePath, readOptions)
        log1 == <<CallRec("GetFile", project, filePath, readOptions, g)>>
    IN  IF g.err # Nil
        THEN Ret(data, g.R, log1, "error", FromErr(g.err))
        ELSE LET existingRepositoryFile == g.val
                 R1 == ExtStep(g.R, env.x[1])
                 log2 == log1 \o ExtLog(g.R, env.x[1])
                 options == DeleteOptions(data, existingRepositoryFile)
                 x == DeleteFile(R1, env.f[2], project, filePath, options)
                 log3 == log2 \o <<CallRec("DeleteFile", project, filePath, options, x)>>
             IN  IF x.err # Nil
                 THEN IF x.resp = Nil
                      \* resp.Status on a nil response: nil pointer dereference
                      THEN Ret(data, x.R, log3, "panic", Nil)
                      ELSE Ret(data, x.R, log3, "error",
                               DeleteError(data.id, x.resp, x.err))
                 ELSE Ret(data, x.R, log3, "ok", Nil)

\* (variant: any import string of at least three parts is accepted)
ImporterState_atLeastThree(data) ==
    LET s == Split(data.id, ":")
    IN  IF Len(s) < 3
        THEN Ret(SetId(data, EmptyStr), Nil, <<>>, "error",
                 [text |-> <<"invalid", "Repository", "File", "import", "format">>])
        ELSE Ret(Set(Set(SetId(data, s[3]), "project", s[1]), "branch", s[2]),
                 Nil, <<>>, "ok", Nil)

\* Importer.State
ImporterState(data) ==
    LET s == Split(data.id, ":")
    IN  IF Len(s) # 3
        THEN Ret(SetId(data, EmptyStr), Nil, <<>>, "error",
                 [text |-> <<"invalid", "Repository", "File", "import", "format">>])
        ELSE LET project == s[1]
                 branch == s[2]
                 filePath == s[3]
                 d1 == SetId(data, filePath)
                 d2 == Set(d1, "project", project)
                 d3 == Set(d2, "branch", branch)
             IN  Ret(d3, Nil, <<>>, "ok", Nil)

----------------------------------------------------------------------------
(* Inputs *)

CreateMessage == <<"feature:", "add">>
UpdateMessage == <<"feature:", "change">>

\* declared configuration of a repository-file resource
Configs ==
    [project : {KnownProject}, file_path : {PlainPath}, branch : {MainBranch},
     start_branch : {EmptyStr}, author_email : {<<"meow@catnip.com">>},
     author_name : {<<"Meow">>}, content : Contents,
     commit_message : {CreateMessage},
     overwrite_on_create : BOOLEAN]

NewData(cfg) ==
    [id |-> EmptyStr, project |-> cfg.project, file_path |-> cfg.file_path,
     branch |-> cfg.branch, start_branch |-> cfg.start_branch,
     author_email |-> cfg.author_email, author_name |-> cfg.author_name,
     content |-> cfg.content, commit_message |-> cfg.commit_message,
     overwrite_on_create |-> cfg.overwrite_on_create]

\* what the environment does during one operation: a fault or none for each
\* remote call, and what another writer commits between the calls
\* (nCalls remote calls, with nCalls - 1 places between them)
Envs(nCalls) ==
    {e \in [f : [1..3 -> Faults], x : [1..2 -> ExtChoices]] :
        /\ \A i \in 1..3 : i > nCalls => e.f[i] = "none"
        /\ \A i \in 1..2 : i >= nCalls => e.x[i].kind = "none"
        /\ Cardinality({i \in 1..3 : e.f[i] # "none"}) <= MaxFaultsPerOp
        /\ Cardinality({i \in 1..2 : e.x[i].kind # "none"}) <= MaxExtPerOp}

\* import strings: up to MaxParts chunks joined by ":"
MaxParts == 4
Chunks == {EmptyStr, <<"42">>, <<"main">>, <<"meow">>, <<"txt">>}

RECURSIVE Join(_)
Join(ps) ==
    IF Len(ps) = 1 THEN ps[1] ELSE ps[1] \o <<":">> \o Join(Tail(ps))

ImportIds ==
    UNION {{Join(ps) : ps \in [1..n -> Chunks]} : n \in 1..MaxParts}

----------------------------------------------------------------------------
(* Project access tokens *)

PerPage == 100

TokenProject == 42

\* the remote assigns token IDs 1, 2, ...; a revoked token leaves the list.
\* Tokens that this resource created carry the attributes it declared; the
\* attributes of the other tokens are fixed by their ID.
\* (ext counts what other parties did since the start)
NoTokens == [count |-> 0, gone |-> {}, own |-> <<>>, ext |-> 0]

MaxTokens == MaxPages * PerPage + 1

Digits == <<"0", "1", "2", "3", "4", "5", "6", "7", "8", "9">>

RECURSIVE Itoa(_)
\* strconv.Itoa for n >= 0
Itoa(n) == IF n < 10 THEN <<Digits[n + 1]>> ELSE Itoa(n \div 10) \o <<Digits[(n % 10) + 1]>>

DigitValue(c) == (CHOOSE i \in 1..10 : Digits[i] = c) - 1

IsDigit(c) == \E i \in 1..10 : Digits[i] = c

RECURSIVE DigitsValue(_)
DigitsValue(s) ==
    IF Len(s) = 0 THEN 0
    ELSE DigitsValue(SubSeq(s, 1, Len(s) - 1)) * 10 + DigitValue(s[Len(s)])

\* strconv.Atoi: [ok, val]
Atoi(s) ==
    LET body == IF Len(s) > 0 /\ s[1] \in {"+", "-"} THEN Tail(s) ELSE s
    IN  IF Len(body) = 0 \/ \E i \in 1..Len(body) : ~IsDigit(body[i])
        THEN [ok |-> FALSE, val |-> 0]
        ELSE [ok |-> TRUE,
              val |-> IF s[1] = "-" THEN 0 - DigitsValue(body) ELSE DigitsValue(body)]

\* strings.SplitN(s, sep, 2)
SplitN2(s, sep) ==
    IF \A i \in 1..Len(s) : s[i] # sep
    THEN <<s>>
    ELSE LET i == CHOOSE k \in 1..Len(s) :
                     s[k] = sep /\ \A j \in 1..(k-1) : s[j] # sep
         IN  <<SubSeq(s, 1, i-1), SubSeq(s, i+1, Len(s))>>

\* parseTwoPartID: [ok, a, b]
parseTwoPartID(id) ==
    LET parts == SplitN2(id, ":")
    IN  IF Len(parts) # 2
        THEN [ok |-> FALSE, a |-> EmptyStr, b |-> EmptyStr]
        ELSE [ok |-> TRUE, a |-> parts[1], b |-> parts[2]]

buildTwoPartID(a, b) == a \o <<":">> \o b

\* gitlab.ISOTime: a calendar date; String() prints year-month-day
ISOTimeString(t) == <<t.date>>

\* time.Time: String() prints date, clock and zone
TimeString(t) == <<t.date, t.clock, "+0000 UTC">>

\* time.Parse("2006-01-02", v): [ok, val]
Dates == {"2022-01-01", "2023-06-30"}

ParseDate(s) ==
    IF Len(s) = 1 /\ s[1] \in Dates
    THEN [ok |-> TRUE, val |-> [date |-> s[1]]]
    ELSE [ok |-> FALSE, val |-> Nil]

\* a token somebody else created
OtherToken(id) ==
    [ID |-> id, Name |-> <<"other">>,
     ExpiresAt |-> IF id % 2 = 0 THEN Nil ELSE [date |-> "2023-06-30"],
     Active |-> TRUE,
     CreatedAt |-> [date |-> "2021-10-01", clock |-> "12:00:00"],
     Revoked |-> FALSE, UserID |-> 1000 + id,
     Scopes |-> IF id % 3 = 0 THEN {"read_api"} ELSE {"api", "read_repository"}]

TokenEntry(T, id) == IF id \in DOMAIN T.own THEN T.own[id] ELSE OtherToken(id)

\* the number of listed tokens
LiveCount(T) == T.count - Cardinality(T.gone \cap 1..T.count)

\* the ID of the k-th listed token, in listing order (ascending ID): k plus
\* the number of revoked tokens that precede it
LiveAt(T, k) ==
    k + Cardinality({g \in T.gone :
                        g - 1 - Cardinality({h \in T.gone : h < g}) < k})

Min(a, b) == IF a < b THEN a ELSE b

\* client.ProjectAccessTokens.ListProjectAccessTokens(project, {Page, PerPage})
\* (val: the IDs of the entries of the page; the entry of an ID is TokenEntry)
ListProjectAccessTokens(T, fault, project, opts) ==
    IF fault # "none" THEN Faulted(T, fault, "GET")
    ELSE IF project # TokenProject
    THEN Failed(T, "GET", "404 Not Found", "404", ProjectNotFoundText)
    ELSE LET total == LiveCount(T)
             first == (opts.Page - 1) * opts.PerPage + 1
             lastIdx == Min(opts.Page * opts.PerPage, total)
         IN  [R |-> T,
              val |-> IF lastIdx >= first
                      THEN (LiveAt(T, first)..LiveAt(T, lastIdx)) \ T.gone
                      ELSE {},
              resp |-> [Status |-> "200 OK",
                        NextPage |-> IF opts.Page * opts.PerPage < total
                                     THEN opts.Page + 1 ELSE 0],
              err |-> Nil]

\* client.ProjectAccessTokens.CreateProjectAccessToken(project, options)
CreateProjectAccessToken(T, fault, project, opts) ==
    IF fault # "none" THEN Faulted(T, fault, "POST")
    ELSE IF project # TokenProject
    THEN Failed(T, "POST", "404 Not Found", "404", ProjectNotFoundText)
    ELSE LET id == T.count + 1
             entry == [ID |-> id, Name |-> opts.Name,
                       ExpiresAt |-> opts.ExpiresAt, Active |-> TRUE,
                       CreatedAt |-> [date |-> "2021-11-01", clock |-> "09:30:00"],
                       Revoked |-> FALSE, UserID |-> 1000 + id,
                       Scopes |-> opts.Scopes]
         IN  [R |-> [T EXCEPT !.count = id,
                              !.own = [i \in DOMAIN T.own \cup {id} |->
                                          IF i = id THEN entry ELSE T.own[i]]],
              val |-> [ID |-> id, Token |-> <<"glpat-">> \o Itoa(id)],
              resp |-> Response("201 Created"), err |-> Nil]

\* client.ProjectAccessTokens.DeleteProjectAccessToken(project, id)
DeleteProjectAccessToken(T, fault, project, id) ==
    IF fault # "none" THEN Faulted(T, fault, "DELETE")
    ELSE IF project # TokenProject
    THEN Failed(T, "DELETE", "404 Not Found", "404", ProjectNotFoundText)
    ELSE IF id \notin 1..T.count \/ id \in T.gone
    THEN Failed(T, "DELETE", "404 Not Found", "404", <<"404", "Not", "Found">>)
    ELSE [R |-> [T EXCEPT !.gone = T.gone \cup {id}], val |-> Nil,
          resp |-> Response("204 No Content"), err |-> Nil]

\* another party adds a token to the project or revokes its oldest one
TokenExtChoices == {"none", "add", "revoke"}

TokenExtEnabled(T, x) ==
    \/ x = "none"
    \/ x = "add" /\ T.ext < MaxTokenExt
    \/ x = "revoke" /\ LiveCount(T) > 0 /\ T.ext < MaxTokenExt

TokenExtApply(T, x) ==
    IF x = "add"
    THEN [T EXCEPT !.count = T.count + 1, !.ext = T.ext + 1]
    ELSE IF x = "revoke"
    THEN [T EXCEPT !.gone = T.gone \cup {LiveAt(T, 1)}, !.ext = T.ext + 1]
    ELSE T

TokenExtStep(T, x) == IF TokenExtEnabled(T, x) THEN TokenExtApply(T, x) ELSE T

TokenExtLog(T, x) ==
    IF x # "none" /\ TokenExtEnabled(T, x)
    THEN <<[api |-> "ext", page |-> 0, items |-> 0, ids |-> {},
            nextPage |-> 0, opts |-> x, err |-> Nil]>>
    ELSE <<>>

\* ResourceData of the token resource
TokenSchemaKeys ==
    {"project", "name", "scopes", "expires_at", "token", "active",
     "created_at", "revoked", "user_id"}

EmptyTokenData ==
    [id |-> EmptyStr, project |-> 0, name |-> EmptyStr, scopes |-> {},
     expires_at |-> EmptyStr, token |-> EmptyStr, active |-> FALSE,
     created_at |-> EmptyStr, revoked |-> FALSE, user_id |-> 0]

TokenSet(data, key, value) ==
    IF key \in TokenSchemaKeys THEN [data EXCEPT ![key] = value] ELSE data

\* (variant: the secret too is set from the list entry, which carries none)
TokenSetAttributes_withToken(data, project, projectAccessToken) ==
    LET d1 == TokenSet(data, "project", project)
        d2 == TokenSet(d1, "name", projectAccessToken.Name)
        d3 == IF projectAccessToken.ExpiresAt # Nil
              THEN TokenSet(d2, "expires_at", ISOTimeString(projectAccessToken.ExpiresAt))
              ELSE d2
        d4 == TokenSet(d3, "active", projectAccessToken.Active)
        d5 == TokenSet(d4, "created_at", TimeString(projectAccessToken.CreatedAt))
        d6 == TokenSet(d5, "revoked", projectAccessToken.Revoked)
        d7 == TokenSet(d6, "user_id", projectAccessToken.UserID)
        d8 == TokenSet(d7, "scopes", projectAccessToken.Scopes)
    IN  TokenSet(d8, "token", EmptyStr)

\* the d.Set calls of the token Read for the matching list entry
TokenSetAttributes(data, project, projectAccessToken) ==
    LET d1 == TokenSet(data, "project", project)
        d2 == TokenSet(d1, "name", projectAccessToken.Name)
        d3 == IF projectAccessToken.ExpiresAt # Nil
              THEN TokenSet(d2, "expires_at", ISOTimeString(projectAccessToken.ExpiresAt))
              ELSE d2
        d4 == TokenSet(d3, "active", projectAccessToken.Active)
        d5 == TokenSet(d4, "created_at", TimeString(projectAccessToken.CreatedAt))
        d6 == TokenSet(d5, "revoked", projectAccessToken.Revoked)
        d7 == TokenSet(d6, "user_id", projectAccessToken.UserID)
        d8 == TokenSet(d7, "scopes", projectAccessToken.Scopes)
    IN  d8

ListRec(opts, r) ==
    [api |-> "ListProjectAccessTokens", page |-> opts.Page,
     items |-> IF r.err = Nil THEN Cardinality(r.val) ELSE 0,
     ids |-> IF r.err = Nil THEN r.val ELSE {},
     nextPage |-> IF r.err = Nil THEN r.resp.NextPage ELSE 0,
     opts |-> opts, err |-> r.err]

\* number of remote calls in a log
NumCalls(log) == Cardinality({i \in 1..Len(log) : log[i].api # "ext"})

\* (variant: only the first page of the listing is looked at)
NextPageOf_firstOnly(response) == 0

\* page = response.NextPage
NextPageOf(response) == response.NextPage

\* (variant: running out of pages is reported as an error)
ScanExhausted_error(T, data, log) ==
    Ret(data, T, log, "error", [text |-> <<"project access token not found">>])

\* after the page loop: d.SetId(""), return nil
ScanExhausted(T, data, log) ==
    Ret(SetId(data, EmptyStr), T, log, "ok", Nil)

RECURSIVE ScanPages(_, _, _, _, _, _, _)
\* the page loop of the token Read
ScanPages(T, data, project, projectAccessTokenID, page, env, log) ==
    IF page = 0
    THEN ScanExhausted(T, data, log)
    ELSE LET n == NumCalls(log) + 1
             opts == [Page |-> page, PerPage |-> PerPage]
             r == ListProjectAccessTokens(T, env.f[n], project, opts)
             log1 == log \o <<ListRec(opts, r)>>
         IN  IF r.err # Nil
             THEN Ret(data, T, log1, "error", r.err)
             ELSE IF \E id \in r.val : id = projectAccessTokenID
             THEN LET projectAccessToken ==
                          TokenEntry(T, CHOOSE id \in r.val : id = projectAccessTokenID)
                  IN  Ret(TokenSetAttributes(data, project, projectAccessToken),
                          T, log1, "ok", Nil)
             ELSE ScanPages(TokenExtStep(T, env.x[n]), data, project,
                            projectAccessTokenID, NextPageOf(r.resp), env,
                            log1 \o TokenExtLog(T, env.x[n]))

resourceGitlabProjectAccessTokenRead(T, data, env) ==
    LET parsed == parseTwoPartID(data.id)
    IN  IF ~parsed.ok
        THEN Ret(data, T, <<>>, "error",
                 [text |-> <<"Error parsing ID:">> \o data.id])
        ELSE LET project == Atoi(parsed.a)
                 projectAccessTokenID == Atoi(parsed.b)
             IN  IF ~project.ok
                 THEN Ret(data, T, <<>>, "error",
                          [text |-> parsed.a \o <<"cannot be converted to int">>])
                 ELSE IF ~projectAccessTokenID.ok
                 THEN Ret(data, T, <<>>, "error",
                          [text |-> parsed.b \o <<"cannot be converted to int">>])
                 ELSE ScanPages(T, data, project.val, projectAccessTokenID.val,
                                1, env, <<>>)

CallRecToken(api, opts, r) ==
    [api |-> api, page |-> 0, items |-> 0, ids |-> {}, nextPage |-> 0,
     opts |-> opts, err |-> r.err]

resourceGitlabProjectAccessTokenCreate(T, data, env) ==
    LET project == data.project
        expires == IF data.expires_at # EmptyStr
                   THEN ParseDate(data.expires_at)
                   ELSE [ok |-> TRUE, val |-> Nil]
        options == [Name |-> data.name, Scopes |-> data.scopes,
                    ExpiresAt |-> expires.val]
    IN  IF ~expires.ok
        THEN Ret(data, T, <<>>, "error", [text |-> <<"Invalid expires_at date:">>])
        ELSE LET c == CreateProjectAccessToken(T, env.f[1], project, options)
                 log == <<CallRecToken("CreateProjectAccessToken", options, c)>>
             IN  IF c.err # Nil
                 THEN Ret(data, c.R, log, "error", c.err)
                 ELSE LET projectString == Itoa(project)
                          PATstring == Itoa(c.val.ID)
                          d1 == SetId(data, buildTwoPartID(projectString, PATstring))
                          d2 == TokenSet(d1, "token", c.val.Token)
                          T1 == TokenExtStep(c.R, env.x[1])
                          rd == resourceGitlabProjectAccessTokenRead(T1, d2,
                                    [f |-> Tail(env.f), x |-> Tail(env.x)])
                      IN  Ret(rd.d, rd.R,
                              log \o TokenExtLog(c.R, env.x[1]) \o rd.calls,
                              rd.outcome, rd.err)

resourceGitlabProjectAccessTokenDelete(T, data, env) ==
    LET parsed == parseTwoPartID(data.id)
    IN  IF ~parsed.ok
        THEN Ret(data, T, <<>>, "error",
                 [text |-> <<"Error parsing ID:">> \o data.id])
        ELSE LET project == Atoi(parsed.a)
                 projectAccessTokenID == Atoi(parsed.b)
             IN  IF ~project.ok
                 THEN Ret(data, T, <<>>, "error",
                          [text |-> parsed.a \o <<"cannot be converted to int">>])
                 ELSE IF ~projectAccessTokenID.ok
                 THEN Ret(data, T, <<>>, "error",
                          [text |-> parsed.b \o <<"cannot be converted to int">>])
                 ELSE LET x == DeleteProjectAccessToken(T, env.f[1], project.val,
                                                        projectAccessTokenID.val)
                          log == <<CallRecToken("DeleteProjectAccessToken",
                                                projectAccessTokenID.val, x)>>
                      IN  Ret(data, x.R, log,
                              IF x.err # Nil THEN "error" ELSE "ok", x.err)

\* the environment's part in a token operation: a fault or none for each of
\* its remote calls, and what another party does after each of them
MaxCalls == MaxPages + MaxTokenExt + 2

\* an operation returns at its first failed call, so one fault decides it;
\* n is the number of calls the operation makes when nothing fails
FaultPlans(n) ==
    {[i \in 1..MaxCalls |-> "none"]}
      \cup {[i \in 1..MaxCalls |-> IF i = k THEN fault ELSE "none"] :
               k \in 1..n, fault \in Faults \ {"none"}}

\* another party acts between two calls of the operation: the k-th time
\* after one of the calls the operation makes anyway or one of the at most
\* k - 1 calls that earlier additions gave rise to
TokenExtPlans(T, n) ==
    LET at == {P \in SUBSET (1..(MaxCalls - 1)) :
                  /\ Cardinality(P) <= MaxTokenExt - T.ext
                  /\ \A i \in P : i < n + Cardinality({j \in P : j < i})}
    IN  UNION {{[i \in 1..MaxCalls |-> IF i \in P THEN kind[i] ELSE "none"] :
                   kind \in [P -> TokenExtChoices \ {"none"}]} : P \in at}

NoTokenEnv ==
    [f |-> [i \in 1..MaxCalls |-> "none"], x |-> [i \in 1..MaxCalls |-> "none"]]

TokenConfigs ==
    [project : {TokenProject}, name : {<<"ci">>},
     scopes : {{"api", "read_repository"}},
     expires_at : {EmptyStr, <<"2022-01-01">>}]

NewTokenData(cfg) ==
    [EmptyTokenData EXCEPT !.project = cfg.project, !.name = cfg.name,
                           !.scopes = cfg.scopes, !.expires_at = cfg.expires_at]

\* list lengths around the page boundaries
TokenCounts == {0, 1} \cup {k * PerPage + j : k \in 1..MaxPages, j \in {-1, 0}}

TokensIdle ==
    /\ tokens = NoTokens
    /\ td = EmptyTokenData
    /\ tlast = [op |-> "none", outcome |-> "ok", err |-> Nil, calls |-> <<>>,
                in |-> EmptyTokenData, pre |-> NoTokens]

TokenFinish(op, in, r) ==
    /\ r.R.count <= MaxTokens + MaxTokenExt
    /\ tokens' = r.R
    /\ td' = r.d
    /\ tlast' = [op |-> op, outcome |-> r.outcome, err |-> r.err,
                 calls |-> r.calls, in |-> in, pre |-> tokens]
    /\ UNCHANGED <<fileVars, vc>>

TokenCreate ==
    /\ td.id = EmptyStr
    /\ Cardinality(DOMAIN tokens.own) < MaxOwn
    /\ \E cfg \in TokenConfigs :
          LET in == NewTokenData(cfg)
              n == NumCalls(resourceGitlabProjectAccessTokenCreate(
                                tokens, in, NoTokenEnv).calls)
          IN  \E x \in TokenExtPlans(tokens, n) :
                  \E f \in FaultPlans(n + Cardinality({i \in 1..MaxCalls : x[i] # "none"})) :
                      TokenFinish("Create", in,
                                  resourceGitlabProjectAccessTokenCreate(
                                      tokens, in, [f |-> f, x |-> x]))

TokenRead ==
    /\ td.id # EmptyStr
    /\ LET n == NumCalls(resourceGitlabProjectAccessTokenRead(
                             tokens, td, NoTokenEnv).calls)
       IN  \E x \in TokenExtPlans(tokens, n) :
               \E f \in FaultPlans(n + Cardinality({i \in 1..MaxCalls : x[i] # "none"})) :
                   TokenFinish("Read", td,
                               resourceGitlabProjectAccessTokenRead(
                                   tokens, td, [f |-> f, x |-> x]))

TokenDelete ==
    /\ td.id # EmptyStr
    /\ \E f \in FaultPlans(1) :
          TokenFinish("Delete", td,
                      resourceGitlabProjectAccessTokenDelete(
                          tokens, td, [NoTokenEnv EXCEPT !.f = f]))

\* the project starts with the tokens other parties created
InitToken ==
    /\ tokens \in {[NoTokens EXCEPT !.count = n] : n \in TokenCounts}
    /\ td = EmptyTokenData
    /\ tlast = [op |-> "none", outcome |-> "ok", err |-> Nil, calls |-> <<>>,
                in |-> EmptyTokenData, pre |-> NoTokens]
    /\ files = [k \in {<<KnownProject, MainBranch, p>> : p \in Paths} |-> NoFile]
    /\ commits = 1
    /\ d = EmptyData
    /\ last = [op |-> "none", outcome |-> "ok", err |-> Nil, calls |-> <<>>,
               in |-> EmptyData, pre |-> [files |-> <<>>, commits |-> 0],
               extAfter |-> FALSE]
    /\ vc = [content |-> <<>>, checked |-> FALSE, errors |-> <<>>]

NextToken == TokenCreate \/ TokenRead \/ TokenDelete

SpecToken == InitToken /\ [][NextToken]_vars

----------------------------------------------------------------------------
(* Content validation *)

\* characters of a content string: a letter of the base64 alphabet, the
\* padding character, a line break, and a character that is none of these
AlphabetChar == "Q"
PadChar == "="
NewlineChars == {"\n", "\r"}
Chars == {AlphabetChar, PadChar, "\n", " "}

RECURSIVE SkipNewlines(_, _)
\* first index >= si of src that is not a line break (Len(src) + 1 if none)
SkipNewlines(src, si) ==
    IF si <= Len(src) /\ src[si] \in NewlineChars
    THEN SkipNewlines(src, si + 1)
    ELSE si

\* (variant: RawStdEncoding, which takes unpadded input)
AtEnd_raw(j) == j # 1

\* end of input inside a quantum: only between quanta for a padded encoding
AtEnd(j) == j = 0

RECURSIVE DecodeFrom(_, _, _)
\* base64.StdEncoding.DecodeString from index si, j characters into the
\* current quantum of four: TRUE iff it returns no error
DecodeFrom(src, si, j) ==
    IF si > Len(src) THEN AtEnd(j)
    ELSE IF src[si] = AlphabetChar
    THEN DecodeFrom(src, si + 1, (j + 1) % 4)
    ELSE IF src[si] \in NewlineChars
    THEN DecodeFrom(src, si + 1, j)
    ELSE IF src[si] # PadChar
    THEN FALSE
    ELSE IF j < 2
    THEN FALSE
    ELSE IF j = 2
    THEN LET k == SkipNewlines(src, si + 1)
         IN  /\ k <= Len(src)
             /\ src[k] = PadChar
             /\ SkipNewlines(src, k + 1) > Len(src)
    ELSE SkipNewlines(src, si + 1) > Len(src)

DecodeString(src) == DecodeFrom(src, 1, 0)

validateBase64Content(content) ==
    IF ~DecodeString(content)
    THEN <<[text |-> <<"given repository file content">> \o content
                       \o <<"is not base64 encoded, but must be">>]>>
    ELSE <<>>

RECURSIVE StringsOfLen(_)
StringsOfLen(n) ==
    IF n = 0 THEN {<<>>}
    ELSE {Append(s, c) : s \in StringsOfLen(n - 1), c \in Chars}

ContentStrings == UNION {StringsOfLen(n) : n \in 0..MaxContentLen}

NoValidation == [content |-> <<>>, checked |-> FALSE, errors |-> <<>>]

Validate ==
    /\ ~vc.checked
    /\ vc' = [vc EXCEPT !.checked = TRUE,
                      !.errors = validateBase64Content(vc.content)]
    /\ UNCHANGED <<fileVars, tokenVars>>

----------------------------------------------------------------------------
(* State machine *)

Remote == [files |-> files, commits |-> commits]

\* the last operation: what it was given, the remote it started from, the
\* remote calls it made and what it returned
\* (extAfter: another writer committed after it returned)
NoOp == [op |-> "none", outcome |-> "ok", err |-> Nil, calls |-> <<>>,
         in |-> EmptyData, pre |-> [files |-> <<>>, commits |-> 0],
         extAfter |-> FALSE]

NoExt(calls) == \A i \in 1..Len(calls) : calls[i].api # "ext"


Init ==
    /\ files = [k \in {Key(KnownProject, MainBranch, p) : p \in Paths} |-> NoFile]
    /\ commits = 1
    /\ d = EmptyData
    /\ last = NoOp
    /\ vc = NoValidation
    /\ TokensIdle

Finish(op, in, r) ==
    /\ r.R.commits <= MaxCommits
    /\ files' = r.R.files
    /\ commits' = r.R.commits
    /\ d' = r.d
    /\ last' = [op |-> op, outcome |-> r.outcome, err |-> r.err,
                calls |-> r.calls, in |-> in, pre |-> Remote,
                extAfter |-> FALSE]
    /\ UNCHANGED <<vc, tokenVars>>

Create ==
    /\ d.id = EmptyStr
    /\ \E cfg \in Configs, env \in Envs(3) :
          Finish("Create", NewData(cfg),
                 resourceGitlabRepositoryFileCreate(Remote, NewData(cfg), env))

Read ==
    /\ d.id # EmptyStr
    /\ \E fault \in Faults :
          Finish("Read", d, resourceGitlabRepositoryFileRead(Remote, d, fault))

Update ==
    /\ d.id # EmptyStr
    /\ d.file_path # EmptyStr
    /\ \E c \in Contents, env \in Envs(3) :
          LET in == [d EXCEPT !.content = c, !.commit_message = UpdateMessage]
          IN  Finish("Update", in,
                     resourceGitlabRepositoryFileUpdate(Remote, in, env))

Delete ==
    /\ d.id # EmptyStr
    /\ d.file_path # EmptyStr
    /\ \E env \in Envs(2) :
          Finish("Delete", d, resourceGitlabRepositoryFileDelete(Remote, d, env))

Import ==
    /\ d.id = EmptyStr
    /\ last.op # "Import"
    /\ \E s \in ImportIds :
          LET in == SetId(EmptyData, s)
              r == ImporterState(in)
          IN  /\ d' = r.d
              /\ last' = [op |-> "Import", outcome |-> r.outcome,
                          err |-> r.err, calls |-> r.calls, in |-> in,
                          pre |-> Remote, extAfter |-> FALSE]
              /\ UNCHANGED <<files, commits, vc, tokenVars>>

\* another writer commits between two operations
External ==
    /\ commits < MaxCommits
    /\ \E x \in ExtChoices :
          /\ x.kind # "none"
          /\ ExtEnabled(Remote, x)
          /\ files' = ExtApply(Remote, x).files
          /\ commits' = ExtApply(Remote, x).commits
          /\ last' = [last EXCEPT !.extAfter = TRUE]
          /\ UNCHANGED <<d, vc, tokenVars>>

Next == Create \/ Read \/ Update \/ Delete \/ External

Spec == Init /\ [][Next]_vars

\* terraform import: the importer, then the standard Read, on a repository
\* that other writers have populated
InitImport ==
    /\ files \in [{Key(KnownProject, MainBranch, p) : p \in Paths} ->
                    {NoFile, [exists |-> TRUE, content |-> ExtContent,
                              last_commit_id |-> 1]}]
    /\ commits = 1
    /\ d = EmptyData
    /\ last = NoOp
    /\ vc = NoValidation
    /\ TokensIdle

\* validation of a declared content string, before any operation
FilesIdle ==
    /\ files = [k \in {Key(KnownProject, MainBranch, p) : p \in Paths} |-> NoFile]
    /\ commits = 1
    /\ d = EmptyData
    /\ last = NoOp

InitBase64 ==
    /\ FilesIdle
    /\ TokensIdle
    /\ vc \in {[content |-> s, checked |-> FALSE, errors |-> <<>>] :
                s \in ContentStrings}

NextBase64 == Validate

SpecBase64 == InitBase64 /\ [][NextBase64]_vars

NextImport == Import \/ Read

SpecImport == InitImport /\ [][NextImport]_vars

\* identifiers a token resource may be handed: up to MaxIdParts chunks
\* joined by ":" (well-formed ones among them)
MaxIdParts == 3
TokenIdChunks == {EmptyStr, <<"4", "2">>, <<"1">>, <<"notanid">>}

TokenIds ==
    UNION {{Join(ps) : ps \in [1..n -> TokenIdChunks]} : n \in 1..MaxIdParts}

\* Read and Delete of a token resource whose tracked identifier is any of
\* these strings
InitTokenId ==
    /\ tokens \in {[NoTokens EXCEPT !.count = n] : n \in {0, 1}}
    /\ td \in {SetId(NewTokenData(cfg), id) : cfg \in TokenConfigs, id \in TokenIds}
    /\ tlast = [op |-> "none", outcome |-> "ok", err |-> Nil, calls |-> <<>>,
                in |-> EmptyTokenData, pre |-> NoTokens]
    /\ FilesIdle
    /\ vc = NoValidation

NextTokenId == TokenRead \/ TokenDelete

SpecTokenId == InitTokenId /\ [][NextTokenId]_vars

----------------------------------------------------------------------------
(* Vocabulary of the properties *)

IsOwn(c) == c.api # "ext"

\* the remote calls the last operation made itself, in order
Own == SelectSeq(last.calls, IsOwn)

OwnApis == [i \in 1..Len(Own) |-> Own[i].api]

\* the declared file as the remote held it when the last operation started
PreFile ==
    Lookup(last.pre, last.in.project, last.in.branch, last.in.file_path)

\* the declared file as the remote holds it now
NowFile == Lookup(Remote, last.in.project, last.in.branch, last.in.file_path)

\* no other writer committed since the last operation started
Undisturbed == NoExt(last.calls) /\ ~last.extAfter

----------------------------------------------------------------------------
(* Properties of the repository-file resource *)

\* C1: every Create with overwrite_on_create on an existing file issues an
\* update call (no create call) carrying the commit id its probe read
\* returned, and if it succeeds the tracked content is the declared content
\* (the content part read for Creates that no other writer disturbed, the
\* trailing Read tracking whatever the remote holds).
C1_AsStated ==
    (last.op = "Create" /\ last.in.overwrite_on_create /\ PreFile.exists) =>
        /\ Len(Own) >= 2
        /\ Own[1].api = "GetFile"
        /\ Own[1].err = Nil
        /\ Own[2].api = "UpdateFile"
        /\ Own[2].opts.LastCommitID = Own[1].val.LastCommitID
        /\ \A i \in 1..Len(Own) : Own[i].api # "CreateFile"
        /\ (last.outcome = "ok" /\ Undisturbed => d.content = last.in.content)

\* C1 for the Creates whose probe read answers: such a Create with
\* overwrite_on_create on an existing file issues an update call (no create
\* call) carrying the commit id the probe returned; if it succeeds and no
\* other writer committed meanwhile, the tracked content is the declared
\* content.
C1_OverwriteOnCreate ==
    (/\ last.op = "Create" /\ last.in.overwrite_on_create /\ PreFile.exists
     /\ Own[1].err = Nil) =>
        /\ Len(Own) >= 2
        /\ Own[1].api = "GetFile"
        /\ Own[2].api = "UpdateFile"
        /\ Own[2].opts.LastCommitID = Own[1].val.LastCommitID
        /\ Own[2].opts.LastCommitID = PreFile.last_commit_id
        /\ \A i \in 1..Len(Own) : Own[i].api # "CreateFile"
        /\ (last.outcome = "ok" /\ Undisturbed => d.content = last.in.content)

C1_Witness ==
    /\ last.op = "Create" /\ last.in.overwrite_on_create /\ PreFile.exists
    /\ last.outcome = "ok" /\ Undisturbed
    /\ OwnApis = <<"GetFile", "UpdateFile", "GetFile">>
    /\ PreFile.content # last.in.content
    /\ d.content = last.in.content
    /\ d.id = last.in.file_path

\* what the remote answers to a get-file call for a file that is not there
FileNotFoundError == ErrorResponse("GET", "404", <<"404", "File", "Not", "Found">>)

\* C2: Read clears the identifier and returns no error on file-not-found;
\* returns an error and changes nothing on any other failure; on success sets
\* tracked file_path, branch, content and encoding from the response.
C2_Read ==
    last.op = "Read" =>
        /\ Len(Own) = 1 /\ Own[1].api = "GetFile"
        /\ (Own[1].err = FileNotFoundError =>
                d.id = EmptyStr /\ last.outcome = "ok")
        /\ (Own[1].err # Nil /\ Own[1].err # FileNotFoundError =>
                last.outcome = "error" /\ d = last.in)
        /\ (Own[1].err = Nil =>
                /\ last.outcome = "ok"
                /\ Tracked(d, "file_path") = Own[1].val.FilePath
                /\ Tracked(d, "branch") = Own[1].val.Ref
                /\ Tracked(d, "content") = Own[1].val.Content
                /\ Tracked(d, "encoding") = Own[1].val.Encoding)

\* C3: after a successful Create of content C that no other writer
\* disturbed, a Read leaves tracked content C and tracked encoding base64,
\* and the remote file holds C.
C3_RoundTrip ==
    (last.op = "Create" /\ last.outcome = "ok" /\ Undisturbed) =>
        LET r == resourceGitlabRepositoryFileRead(Remote, d, "none")
        IN  /\ r.outcome = "ok"
            /\ Tracked(r.d, "content") = last.in.content
            /\ Tracked(r.d, "encoding") = <<"base64">>
            /\ NowFile.exists /\ NowFile.content = last.in.content

\* C4: Update calls get-file, update-file, get-file in that order; the update
\* call carries the first get-file's commit id; a failed first get-file is
\* returned and no update call is made; after a successful, undisturbed
\* Update the remote and the tracked content are the declared content.
C4_Update ==
    last.op = "Update" =>
        /\ OwnApis \in {<<"GetFile">>, <<"GetFile", "UpdateFile">>,
                        <<"GetFile", "UpdateFile", "GetFile">>}
        /\ (Len(Own) >= 2 =>
                /\ Own[1].err = Nil
                /\ Own[2].opts.LastCommitID = Own[1].val.LastCommitID
                /\ Own[2].opts.Content = last.in.content)
        /\ (Own[1].err # Nil =>
                /\ Len(Own) = 1
                /\ last.outcome = "error"
                /\ last.err.text = Own[1].err.text)
        /\ (Len(Own) = 3 => Own[2].err = Nil /\ Own[3].path = last.in.id)
        /\ (last.outcome = "ok" /\ Undisturbed =>
                /\ Len(Own) = 3
                /\ NowFile.exists /\ NowFile.content = last.in.content
                /\ d.content = last.in.content)

C4_Witness ==
    /\ last.op = "Update" /\ last.outcome = "ok" /\ Undisturbed
    /\ OwnApis = <<"GetFile", "UpdateFile", "GetFile">>
    /\ PreFile.exists /\ PreFile.content # last.in.content
    /\ d.content = last.in.content

\* C5: Delete re-reads the file, then issues exactly one delete call with
\* the re-read's commit id and the declared commit message prefixed by
\* "[DELETE]: "; if the re-read fails (the file being absent included) that
\* error is returned and no delete call is made.
C5_Delete ==
    last.op = "Delete" =>
        /\ Len(Own) >= 1 /\ Own[1].api = "GetFile"
        /\ (Own[1].err = Nil =>
                /\ Len(Own) = 2
                /\ Own[2].api = "DeleteFile"
                /\ Own[2].opts.LastCommitID = Own[1].val.LastCommitID
                /\ Own[2].opts.CommitMessage
                       = <<"[DELETE]: ">> \o last.in.commit_message)
        /\ (Own[1].err # Nil =>
                /\ Len(Own) = 1
                /\ last.outcome = "error"
                /\ last.err.text = Own[1].err.text)

C5_Witness ==
    /\ last.op = "Delete" /\ last.outcome = "ok"
    /\ OwnApis = <<"GetFile", "DeleteFile">>
    /\ PreFile.exists /\ ~NowFile.exists
    /\ last.in.commit_message # EmptyStr

C5_WitnessAbsent ==
    /\ last.op = "Delete" /\ last.outcome = "error"
    /\ ~PreFile.exists
    /\ OwnApis = <<"GetFile">>

\* C6: whenever the delete-file call of Delete fails, with or without a
\* response, Delete returns an error that includes the remote status and the
\* remote message; it neither crashes nor returns success.
C6_DeleteFailureReported ==
    (last.op = "Delete" /\ Len(Own) = 2 /\ Own[2].err # Nil) =>
        /\ last.outcome = "error"
        /\ Contains(last.err.text, Own[2].err.text)
        /\ (Own[2].resp # Nil => Contains(last.err.text, <<Own[2].resp.Status>>))

\* C7: an import string that does not split on ":" into exactly three
\* parts fails locally; otherwise project, branch and identifier are set to
\* the first, second and third part.  Import makes no remote call.
C7_Import ==
    last.op = "Import" =>
        LET s == last.in.id
            colons == {i \in 1..Len(s) : s[i] = ":"}
        IN  /\ last.calls = <<>>
            /\ Remote = last.pre
            /\ (Cardinality(colons) # 2 => last.outcome = "error")
            /\ (Cardinality(colons) = 2 =>
                    LET i == CHOOSE k \in colons : \A m \in colons : k <= m
                        j == CHOOSE k \in colons : \A m \in colons : k >= m
                    IN  /\ last.outcome = "ok"
                        /\ Tracked(d, "project") = SubSeq(s, 1, i - 1)
                        /\ Tracked(d, "branch") = SubSeq(s, i + 1, j - 1)
                        /\ d.id = SubSeq(s, j + 1, Len(s)))

C7_Witness ==
    /\ last.op = "Import" /\ last.outcome = "ok"
    /\ last.in.id = <<"42", ":", "main", ":", "meow">>
    /\ d.project = <<"42">> /\ d.branch = <<"main">> /\ d.id = <<"meow">>

C7_WitnessMalformed ==
    /\ last.op = "Import" /\ last.outcome = "error"
    /\ last.in.id = <<"42", ":", "main", ":", "meow", ":", "txt">>
    /\ last.calls = <<>>

\* the environment that neither fails a call nor lets another writer in
NoEnv == [f |-> [i \in 1..3 |-> "none"], x |-> [i \in 1..2 |-> [kind |-> "none"]]]

\* tracked state after a direct Create of file p with content c in a
\* repository that is otherwise the current one
DirectCreate(p, c) ==
    resourceGitlabRepositoryFileCreate(
        [files |-> [files EXCEPT ![Key(KnownProject, MainBranch, p)] = NoFile],
         commits |-> commits],
        NewData([project |-> KnownProject, file_path |-> p,
                 branch |-> MainBranch, start_branch |-> EmptyStr,
                 author_email |-> EmptyStr, author_name |-> EmptyStr,
                 content |-> c, commit_message |-> CreateMessage,
                 overwrite_on_create |-> FALSE]),
        NoEnv)

\* C8: for every existing remote file F of project P on branch B, Import of
\* "P:B:F" followed by Read tracks the same identifier, file_path, branch,
\* project and content as a direct Create of that file.
C8_ImportThenRead ==
    \A p \in Paths :
        (/\ last.op = "Import"
         /\ last.in.id = KnownProject \o <<":">> \o MainBranch \o <<":">> \o p
         /\ Lookup(Remote, KnownProject, MainBranch, p).exists) =>
            LET ri == resourceGitlabRepositoryFileRead(Remote, d, "none")
                rc == DirectCreate(p, Lookup(Remote, KnownProject, MainBranch, p).content)
            IN  /\ last.outcome = "ok"
                /\ ri.outcome = "ok" /\ rc.outcome = "ok"
                /\ \A k \in {"id", "file_path", "branch", "project", "content"} :
                       ri.d[k] = rc.d[k]

----------------------------------------------------------------------------
(* Properties of content validation *)

\* standard base64 (RFC 4648, section 4): groups of four alphabet letters,
\* the last group possibly ending in one or two padding characters
IsStdBase64(s) ==
    /\ Len(s) % 4 = 0
    /\ \A i \in 1..Len(s) :
          \/ s[i] = "Q"
          \/ s[i] = "=" /\ i = Len(s)
          \/ s[i] = "=" /\ i = Len(s) - 1 /\ s[Len(s)] = "="

WithoutLineBreaks(s) == SelectSeq(s, LAMBDA c : c \notin {"\n", "\r"})

\* C9 as stated: validation returns no error for every valid standard
\* base64 string and at least one error for every other string.
C9_AsStated ==
    vc.checked => (IsStdBase64(vc.content) <=> vc.errors = <<>>)

\* C9 amended: validation returns no error exactly for the strings that are
\* valid standard base64 once their line breaks are removed (every valid
\* standard base64 string among them), at least one error for every other
\* string, and touches nothing remote.
C9_Validation ==
    vc.checked =>
        /\ (IsStdBase64(WithoutLineBreaks(vc.content)) <=> vc.errors = <<>>)
        /\ (IsStdBase64(vc.content) => vc.errors = <<>>)
        /\ FilesIdle

C9_Witness ==
    /\ vc.checked
    /\ vc.content = <<"Q", "Q", "\n", "=", "=">>
    /\ vc.errors = <<>>

C9_WitnessRejected ==
    /\ vc.checked
    /\ vc.content = <<"Q", "Q", " ", "Q", "Q">>
    /\ Len(vc.errors) = 1

----------------------------------------------------------------------------
(* Properties of the project-access-token resource *)

IsListCall(c) == c.api = "ListProjectAccessTokens"

\* the list calls of the last token operation, in order
ListCalls == SelectSeq(tlast.calls, IsListCall)

\* the token the last token operation was tracking
TrackedTokenID ==
    CHOOSE id \in 1..(MaxTokens + MaxTokenExt) :
        tlast.in.id = Itoa(42) \o <<":">> \o Itoa(id)

IsListed(T, id) == id \in 1..T.count /\ id \notin T.gone

\* position of a listed token in the listing
RankOf(T, id) == Cardinality({i \in 1..id : IsListed(T, i)})

\* C10: a token Read during which the token list does not change asks for
\* page 1 and then for each page the previous answer named as next; if the
\* tracked token is on some page it sets name, expiry, active, created_at,
\* revoked, user_id and scopes from that entry and keeps the identifier; if
\* the pages run out without a match it clears the identifier, without error.
C10_TokenRead ==
    (/\ tlast.op = "Read"
     /\ NoExt(tlast.calls)
     /\ \A i \in 1..Len(tlast.calls) : tlast.calls[i].err = Nil) =>
        LET id == TrackedTokenID
            e == TokenEntry(tlast.pre, id)
        IN  /\ Len(ListCalls) >= 1
            /\ ListCalls[1].page = 1
            /\ \A i \in 1..(Len(ListCalls) - 1) :
                  /\ ListCalls[i].nextPage # 0
                  /\ ListCalls[i + 1].page = ListCalls[i].nextPage
            /\ \A i \in 1..Len(ListCalls) : ListCalls[i].opts.PerPage = 100
            /\ tlast.outcome = "ok"
            /\ IF IsListed(tlast.pre, id)
               THEN /\ td.id = tlast.in.id
                    /\ Len(ListCalls) = ((RankOf(tlast.pre, id) - 1) \div 100) + 1
                    /\ td.name = e.Name
                    /\ td.expires_at
                          = (IF e.ExpiresAt = Nil THEN <<>> ELSE <<e.ExpiresAt.date>>)
                    /\ td.active = e.Active
                    /\ td.created_at = <<e.CreatedAt.date, e.CreatedAt.clock, "+0000 UTC">>
                    /\ td.revoked = e.Revoked
                    /\ td.user_id = e.UserID
                    /\ td.scopes = e.Scopes
               ELSE /\ td.id = EmptyStr
                    /\ ListCalls[Len(ListCalls)].nextPage = 0

C10_Witness ==
    /\ tlast.op = "Read" /\ tlast.outcome = "ok" /\ NoExt(tlast.calls)
    /\ Len(ListCalls) = 2
    /\ ListCalls[1].items = 100 /\ ListCalls[2].page = 2
    /\ td.id = tlast.in.id
    /\ td.user_id = 1000 + TrackedTokenID
    /\ td.expires_at = <<"2022-01-01">>

C10_WitnessExhausted ==
    /\ tlast.op = "Read" /\ tlast.outcome = "ok" /\ NoExt(tlast.calls)
    /\ Len(ListCalls) >= 2
    /\ ListCalls[Len(ListCalls)].nextPage = 0
    /\ tlast.in.id # EmptyStr
    /\ td.id = EmptyStr

\* the number of ":"-separated parts of an identifier
PartsOf(id) == Cardinality({i \in 1..Len(id) : id[i] = ":"}) + 1

\* C11: a token Read or Delete of an identifier that does not consist of
\* exactly two ":"-separated parts fails with the parse error that names the
\* identifier, and issues no remote call.
C11_MalformedTokenId ==
    (tlast.op \in {"Read", "Delete"} /\ PartsOf(tlast.in.id) # 2) =>
        /\ tlast.outcome = "error"
        /\ tlast.err = [text |-> <<"Error parsing ID:">> \o tlast.in.id]
        /\ tlast.calls = <<>>
        /\ tokens = tlast.pre

----------------------------------------------------------------------------
(* Properties across the repository-file operations *)

IsMutation(c) == c.api \in {"UpdateFile", "DeleteFile"}

\* C12: every update-file or delete-file call of Create, Update or Delete
\* carries the commit id that a get-file call of the same operation returned,
\* and that get-file call is the remote call the operation made just before:
\* never an id from an earlier operation or from tracked state.
C12_FreshCommitID ==
    \A i \in 1..Len(Own) :
        IsMutation(Own[i]) =>
            /\ last.op \in {"Create", "Update", "Delete"}
            /\ i >= 2
            /\ Own[i - 1].api = "GetFile"
            /\ Own[i - 1].err = Nil
            /\ Own[i].opts.LastCommitID = Own[i - 1].val.LastCommitID
            /\ \A j \in 1..(i - 1) : ~IsMutation(Own[j])

\* an overwriting Create of a file that another writer committed last: the
\* update call carries that writer's commit id
C12_Witness ==
    /\ last.op = "Create" /\ last.outcome = "ok"
    /\ OwnApis = <<"GetFile", "UpdateFile", "GetFile">>
    /\ PreFile.exists /\ PreFile.content = ExtContent
    /\ Own[2].opts.LastCommitID = PreFile.last_commit_id
    /\ Own[2].opts.LastCommitID > 1

\* a Delete after the file changed hands: the delete call carries the id of
\* the re-read, not the one the previous operation saw
C12_WitnessDelete ==
    /\ last.op = "Delete" /\ last.outcome = "ok"
    /\ OwnApis = <<"GetFile", "DeleteFile">>
    /\ PreFile.content = ExtContent
    /\ d.content # ExtContent
    /\ Own[2].opts.LastCommitID = PreFile.last_commit_id


\* the remote's refusal of a mutating call whose commit id is out of date
IsChangedRejection(c) ==
    /\ IsMutation(c)
    /\ c.resp # Nil
    /\ c.err = ErrorResponse(IF c.api = "UpdateFile" THEN "PUT" ELSE "DELETE",
                             "400", ChangedText)

\* another writer committed to the declared file between the re-read and the
\* mutating call of the last operation, and the remote refused that call
RejectedAfterOtherWriter ==
    /\ last.op \in {"Update", "Delete"}
    /\ Len(last.calls) >= 3
    /\ last.calls[1].api = "GetFile" /\ last.calls[1].err = Nil
    /\ last.calls[2].api = "ext" /\ last.calls[2].path = last.in.file_path
    /\ IsChangedRejection(last.calls[3])

\* C13: when another writer commits to the file between the re-read and the
\* mutating call of an Update or Delete and the remote refuses the call, the
\* operation returns that error, has issued the re-read and the mutating call
\* once each and nothing else, and the remote holds what the other writer
\* committed.
C13_ConcurrentModification ==
    RejectedAfterOtherWriter =>
        /\ last.outcome = "error"
        /\ last.err = IF last.op = "Update"
                      THEN FromErr(last.calls[3].err)
                      ELSE DeleteError(last.in.id, last.calls[3].resp,
                                       last.calls[3].err)
        /\ Contains(last.err.text, ChangedText)
        /\ OwnApis = <<"GetFile",
                       IF last.op = "Update" THEN "UpdateFile" ELSE "DeleteFile">>
        /\ Len(last.calls) = 3
        /\ ~last.extAfter =>
              NowFile = Lookup(ExtApply(last.pre, last.calls[2].opts),
                               last.in.project, last.in.branch,
                               last.in.file_path)
        /\ d = last.in

\* an Update loses the race against another writer's new content
C13_Witness ==
    /\ RejectedAfterOtherWriter
    /\ last.op = "Update"
    /\ last.calls[2].opts.kind = "write"
    /\ last.in.content # ExtContent
    /\ ~last.extAfter
    /\ NowFile.exists /\ NowFile.content = ExtContent

\* a Delete loses the race against another writer's new content
C13_WitnessDelete ==
    /\ RejectedAfterOtherWriter
    /\ last.op = "Delete"
    /\ last.calls[2].opts.kind = "write"
    /\ ~last.extAfter
    /\ NowFile.exists /\ NowFile.content = ExtContent


\* C14: when a file Create or Update returns an error because one of its
\* remote calls failed, and no other writer has committed meanwhile, the
\* remote files and the tracked identifier are what they were before the
\* operation.
C14_NoPartialSuccess ==
    (last.op \in {"Create", "Update"} /\ last.outcome = "error" /\ Undisturbed) =>
        /\ files = last.pre.files
        /\ commits = last.pre.commits
        /\ d.id = last.in.id


\* the probe of an overwriting Create failed
ProbeFailed ==
    /\ last.op = "Create"
    /\ last.in.overwrite_on_create
    /\ Len(Own) >= 1
    /\ Own[1].api = "GetFile"
    /\ Own[1].err # Nil

\* C15: when the probe read of a Create with overwrite_on_create = true fails,
\* whatever the reason, Create does not return there: it goes on to a create
\* call, issues no update call, and an error it returns is the error of a
\* later call.
C15_ProbeFailureSwallowed ==
    ProbeFailed =>
        /\ Len(Own) >= 2
        /\ Own[2].api = "CreateFile"
        /\ \A i \in 1..Len(Own) : Own[i].api # "UpdateFile"
        /\ last.outcome \in {"ok", "error"}
        /\ last.outcome = "error" =>
              /\ Own[Len(Own)].err # Nil
              /\ last.err = FromErr(Own[Len(Own)].err)

\* a probe that failed for a reason other than absence: the file exists, the
\* probe's connection was refused, and a create call followed
C15_Witness ==
    /\ ProbeFailed
    /\ Own[1].resp = Nil
    /\ PreFile.exists
    /\ Own[2].api = "CreateFile"
    /\ last.outcome = "error"
    /\ last.err # FromErr(Own[1].err)

\* a probe that failed with a server error while the file is absent: the
\* create call succeeds
C15_WitnessCreated ==
    /\ ProbeFailed
    /\ Own[1].resp = Response("500 Internal Server Error")
    /\ OwnApis = <<"GetFile", "CreateFile", "GetFile">>
    /\ last.outcome = "ok"

\* the create call was refused because the file exists
IsAlreadyExistsRejection(c) ==
    /\ c.api = "CreateFile"
    /\ c.err = ErrorResponse("POST", "400", AlreadyExistsText)

\* C18: a Create with overwrite_on_create false issues no probe read and no
\* update call: its first call is the create call, and the only other call it
\* can make is the trailing Read after that call succeeded.  When the file
\* exists and the remote refuses the create call, Create returns that error,
\* makes no further call, leaves the identifier unset and the remote as it
\* was.
C18_CreateWithoutOverwrite ==
    (last.op = "Create" /\ ~last.in.overwrite_on_create) =>
        /\ Len(Own) >= 1
        /\ Own[1].api = "CreateFile"
        /\ \A i \in 1..Len(Own) : Own[i].api # "UpdateFile"
        /\ \A i \in 2..Len(Own) :
              Own[i].api = "GetFile" /\ i = 2 /\ Own[1].err = Nil
        /\ Len(Own) <= 2
        /\ IsAlreadyExistsRejection(Own[1]) =>
              /\ last.outcome = "error"
              /\ last.err = FromErr(Own[1].err)
              /\ Len(Own) = 1
              /\ d.id = EmptyStr
              /\ Undisturbed => files = last.pre.files /\ commits = last.pre.commits
              /\ (~last.extAfter /\ ~NoExt(last.calls)) =>
                    /\ NowFile.exists
                    /\ files = ExtApply(last.pre, last.calls[1].opts).files

\* a plain Create of a file that another writer committed: refused, and the
\* other writer's content stays
C18_Witness ==
    /\ last.op = "Create" /\ ~last.in.overwrite_on_create
    /\ PreFile.exists /\ PreFile.content = ExtContent
    /\ last.in.content # ExtContent
    /\ OwnApis = <<"CreateFile">>
    /\ IsAlreadyExistsRejection(Own[1])
    /\ last.outcome = "error"
    /\ Undisturbed
    /\ NowFile = PreFile
    /\ d.id = EmptyStr

\* a plain Create of an absent file: the create call, then the trailing Read
C18_WitnessCreated ==
    /\ last.op = "Create" /\ ~last.in.overwrite_on_create
    /\ ~PreFile.exists
    /\ OwnApis = <<"CreateFile", "GetFile">>
    /\ last.outcome = "ok"
    /\ d.id = last.in.file_path


----------------------------------------------------------------------------
(* Further properties of the project-access-token resource *)

\* the create call of the last token operation succeeded
TokenCreated ==
    /\ tlast.op = "Create"
    /\ Len(tlast.calls) >= 1
    /\ tlast.calls[1].api = "CreateProjectAccessToken"
    /\ tlast.calls[1].err = Nil

\* the token that call created, and the secret the remote returned with it
CreatedTokenID == tlast.pre.count + 1
CreatedSecret == <<"glpat-">> \o Itoa(CreatedTokenID)

\* C16: the tracked secret changes only in a token Create whose create call
\* succeeded: it is then the secret that call returned, and the identifier is
\* "project:tokenID" (unless the trailing Read went on to clear it).  Read,
\* the trailing Read of Create included, and Delete leave the secret as it
\* was.
C16_TokenSecret ==
    /\ TokenCreated =>
          /\ td.token = CreatedSecret
          /\ td.id # EmptyStr =>
                td.id = buildTwoPartID(Itoa(TokenProject), Itoa(CreatedTokenID))
          /\ td.id = EmptyStr =>
                tlast.outcome = "ok" /\ Len(ListCalls) >= 1
    /\ (tlast.op = "Create" /\ ~TokenCreated) => td.token = tlast.in.token
    /\ tlast.op \in {"Read", "Delete"} => td.token = tlast.in.token

\* a later Read finds the token on the second page, sets its attributes and
\* leaves the secret of the Create in place
C16_Witness ==
    /\ tlast.op = "Read" /\ tlast.outcome = "ok"
    /\ td.id = tlast.in.id
    /\ Len(ListCalls) = 2
    /\ td.token = <<"glpat-">> \o Itoa(TrackedTokenID)
    /\ td.active

\* a Create whose trailing Read found the new token
C16_WitnessCreate ==
    /\ TokenCreated /\ tlast.outcome = "ok"
    /\ tlast.in.token = EmptyStr
    /\ td.token = CreatedSecret
    /\ td.id = Itoa(TokenProject) \o <<":">> \o Itoa(CreatedTokenID)
    /\ td.user_id = 1000 + CreatedTokenID


\* the last token operation was a Read whose page fetches all succeeded and
\* none of whose pages held the tracked token, although the token was listed
\* when the Read started and still is
Missed ==
    /\ tlast.op = "Read"
    /\ \E id \in 1..(MaxTokens + MaxTokenExt) :
          tlast.in.id = Itoa(TokenProject) \o <<":">> \o Itoa(id)
    /\ IsListed(tlast.pre, TrackedTokenID)
    /\ IsListed(tokens, TrackedTokenID)
    /\ Len(ListCalls) >= 1
    /\ \A i \in 1..Len(ListCalls) :
          ListCalls[i].err = Nil /\ TrackedTokenID \notin ListCalls[i].ids

\* C17: a token Read can miss, on every page it fetches, a token that is
\* listed throughout, when another party adds or removes tokens between two
\* page fetches; the Read then clears the tracked identifier and returns no
\* error, having asked for each page once, in order, without starting over.
C17_ScanRace ==
    Missed =>
        /\ ~NoExt(tlast.calls)
        /\ td.id = EmptyStr
        /\ tlast.outcome = "ok" /\ tlast.err = Nil
        /\ \A i \in 1..Len(ListCalls) : ListCalls[i].page = i
        /\ ListCalls[Len(ListCalls)].nextPage = 0
        /\ td.token = tlast.in.token

\* the tracked token is the first entry of page 2; after page 1 was fetched
\* the oldest token is revoked, the tracked one moves to page 1, and page 2
\* comes back empty
C17_Witness ==
    /\ Missed
    /\ Len(tlast.calls) = 3
    /\ tlast.calls[1].api = "ListProjectAccessTokens" /\ tlast.calls[1].items = PerPage
    /\ tlast.calls[2].api = "ext" /\ tlast.calls[2].opts = "revoke"
    /\ tlast.calls[3].api = "ListProjectAccessTokens" /\ tlast.calls[3].items = 0
    /\ RankOf(tlast.pre, TrackedTokenID) = PerPage + 1
    /\ RankOf(tokens, TrackedTokenID) = PerPage
    /\ td.id = EmptyStr /\ tlast.outcome = "ok"

====
